---- MODULE Spec2Model ----
(***************************************************************************)
(* Partner matching and moderation engine of the Rust team-search bot      *)
(* (src/bot.py).  The SQLite tables are bags of rows, the per-user         *)
(* context.user_data entries are functions over the user ids, and every    *)
(* telegram handler is one action: python-telegram-bot runs the handlers   *)
(* of one Application one update at a time.                                *)
(*                                                                         *)
(* The stats table (update_stat) is written by the handlers and read only  *)
(* by stats_command; it is left out, nothing modelled here reads it.       *)
(***************************************************************************)
EXTENDS Bags, FiniteSets, Integers, Sequences, TLC

\* Telegram ids of the users that hold a row in the users table.
Users == {1, 2, 3}

\* Rows of the users table: hours, age, is_verified, bio with an affinity keyword.
Hours(u) == CASE u = 1 -> 100 [] u = 2 -> 110 [] OTHER -> 500
Age(u) == CASE u = 1 -> 20 [] u = 2 -> 22 [] OTHER -> 40
IsVerified(u) == u = 2
BioHasKeyword(u) == FALSE

\* query.from_user.first_name and users.username of a user.
FirstName(u) == <<"name", u>>
Username(u) == <<"user", u>>

\* Bound: find-partner requests handled in a run, all users together.
MaxFinds == 1

\* Bound: like buttons a user presses while the calls are interleaved (SpecConc).
MaxLikeCalls == 1

\* Bound: days the clock runs for while bans are set and lifted (SpecBan).
MaxDays == 6

\* Bounds of the runs of the limiter alone (SpecLimiter): the calls made, the
\* steps of the clock and the seconds of one step.
MaxCalls == 7
MaxTicks == 4
TickSeconds == 20

\* Bound: candidates handed to the ranking on its own (SpecRank).
MaxCandidates == 2

\* Bound: report buttons pressed in a run of the moderation handlers (SpecReports).
MaxReports == 4

\* Bound: like buttons pressed while the store fails (SpecFail).
MaxFaults == 1

\* Bound: find-partner requests in a run with rebuilds (SpecRebuild).
MaxBuilds == 2

\* Bound: find-partner requests of the one requester (SpecDenied).
MaxRequests == 11

\* Bound: hours the clock runs for in the runs of the limiter over hours
\* (SpecHours).
MaxHours == 2

\* Bounds of the runs of main.py (SpecMain): the cards with buttons that are
\* outstanding, the rows of its likes table and the dates the clock reaches.
MaxCards == 11
MaxLikeRows == 11
MaxDates == 1

\* Bound: updates handled in a run that mixes every handler (SpecAll).
MaxUpdates == 3

\* "no value": a missing user_data entry, a NULL column.
None == 0

VARIABLES
    now,                 \* datetime.now(), in seconds
    requests,            \* limiter.requests: key -> list of timestamps
    is_active,           \* users.is_active
    temp_bans,           \* temp_bans.banned_until per user, None: no row
    likes,               \* table likes: bag of <<from_id, to_id>>
    pending_likes,       \* table pending_likes: bag of <<from_id, to_id, from_name>>
    reports,             \* table reports: bag of <<reporter_id, reported_id>>
    partner_queue,       \* user_data["partner_queue"]
    partner_data,        \* keys of user_data["partner_data"]
    original_partners,   \* user_data["original_partners"]
    current_partner_id,  \* user_data["current_partner_id"]
    match_msgs,          \* bag of <<chat_id, partner>>: messages sent by notify_match
    reply,               \* the last update handled: its action and the answer to it
    responded,           \* history: <<from_id, to_id>> whose pending like to_id answered
    updates,             \* history: number of updates handled
    write_lock,          \* the connection that holds the write lock of users.db
    conn,                \* per user: the add_like call of a like button in progress
    calls,               \* history: the check_limit calls made, with time and result
    presented,           \* history, per user: what the session has shown since the
                         \* last build or restart, up to the first exhaustion signal
    ranking,             \* the last call of sorted(...) on its own: inputs and result
    filed,               \* history: the add_report calls made, in order
    faults,              \* history: the faults of the store met by like buttons
    main                 \* main.py: its database, the cards it has sent and the date

vars == <<now, requests, is_active, temp_bans, likes, pending_likes, reports,
          partner_queue, partner_data, original_partners, current_partner_id,
          match_msgs, reply, responded, updates, write_lock, conn, calls,
          presented, ranking, filed, faults, main>>

limiterVars == <<now, requests, calls>>
storeVars == <<is_active, temp_bans, reports, filed>>
queueVars == <<partner_queue, partner_data, original_partners, current_partner_id,
               presented>>

----------------------------------------------------------------------------
\* Helpers on sequences and bags.

Range(s) == {s[i] : i \in DOMAIN s}

RECURSIVE SetToSortedSeq(_)
SetToSortedSeq(S) ==
    IF S = {} THEN <<>>
    ELSE LET m == CHOOSE x \in S : \A y \in S : x <= y
         IN <<m>> \o SetToSortedSeq(S \ {m})

\* The rows of bag B that satisfy Keep(row), with their multiplicities.
BagFilter(B, Keep(_)) ==
    LET D == {r \in DOMAIN B : Keep(r)} IN [r \in D |-> B[r]]

----------------------------------------------------------------------------
\* RateLimiter (bot.py 44-62).

LimiterKey(user_id, action) == <<user_id, action>>

RequestsOf(reqs, key) == IF key \in DOMAIN reqs THEN reqs[key] ELSE <<>>

RECURSIVE SumLen(_, _)
SumLen(reqs, keys) ==
    IF keys = {} THEN 0
    ELSE LET k == CHOOSE x \in keys : TRUE
         IN Len(reqs[k]) + SumLen(reqs, keys \ {k})

\* Number of timestamps held for all keys.
TotalRequests(reqs) == SumLen(reqs, DOMAIN reqs)

\* Mutant: a timestamp as old as the period is kept.
PrunedRequestsInclusive(reqs, key, period, t) ==
    SelectSeq(RequestsOf(reqs, key), LAMBDA ts : t - ts <= period)

\* The timestamps of the key that are younger than the period.
PrunedRequests(reqs, key, period, t) ==
    SelectSeq(RequestsOf(reqs, key), LAMBDA ts : t - ts < period)

\* The value check_limit returns.
check_limit(reqs, key, limit, period, t) ==
    Len(PrunedRequests(reqs, key, period, t)) < limit

\* Mutant: the timestamp of a denied call is recorded too.
check_limit_requests_always(reqs, key, limit, period, t) ==
    [k \in DOMAIN reqs \cup {key} |->
        IF k = key THEN Append(PrunedRequests(reqs, key, period, t), t) ELSE reqs[k]]

\* limiter.requests after check_limit.
check_limit_requests(reqs, key, limit, period, t) ==
    LET kept == PrunedRequests(reqs, key, period, t)
        new == IF Len(kept) >= limit THEN kept ELSE Append(kept, t)
    IN [k \in DOMAIN reqs \cup {key} |-> IF k = key THEN new ELSE reqs[k]]

----------------------------------------------------------------------------
\* Store queries and statements (bot.py 213-314).

\* Row of get_user_profile: name, hours, age, bio, username, is_active, is_verified.
get_user_profile(active, tg_id) ==
    IF tg_id \in Users
    THEN <<FirstName(tg_id), Hours(tg_id), Age(tg_id), BioHasKeyword(tg_id),
           Username(tg_id), active[tg_id], IsVerified(tg_id)>>
    ELSE <<>>

is_user_banned(bans, user_id, t) == bans[user_id] # None /\ bans[user_id] > t

\* Mutant: the query without the LEFT JOIN on temp_bans.
get_all_active_partners_no_ban_join(active, bans, exclude_id, t) ==
    SetToSortedSeq({u \in Users : u # exclude_id /\ active[u]})

\* Ids of the rows get_all_active_partners returns, in rowid (telegram_id) order.
get_all_active_partners(active, bans, exclude_id, t) ==
    SetToSortedSeq({u \in Users : /\ u # exclude_id
                                  /\ active[u]
                                  /\ (bans[u] = None \/ bans[u] < t)})

\* Mutant: a plain INSERT into a table without the primary key.
InsertLikeNoKey(table, from_id, to_id) == table (+) SetToBag({<<from_id, to_id>>})

\* Mutant: INSERT OR REPLACE under a primary key that is from_id alone.
InsertLikeKeyFrom(table, from_id, to_id) ==
    BagFilter(table, LAMBDA r : r[1] # from_id) (+) SetToBag({<<from_id, to_id>>})

\* INSERT OR IGNORE INTO likes: the primary key is the whole row.
InsertLike(table, from_id, to_id) ==
    IF BagIn(<<from_id, to_id>>, table) THEN table
    ELSE table (+) SetToBag({<<from_id, to_id>>})

\* likes after add_like.
add_like_rows(table, from_id, to_id) == InsertLike(table, from_id, to_id)

\* Mutant: the SELECT looks for the row just inserted, not for the reverse one.
add_like_same_row(table, from_id, to_id) ==
    BagIn(<<from_id, to_id>>, add_like_rows(table, from_id, to_id))

\* The value add_like returns: the reverse row is there after the insert.
add_like(table, from_id, to_id) ==
    BagIn(<<to_id, from_id>>, add_like_rows(table, from_id, to_id))

\* INSERT OR REPLACE INTO pending_likes: primary key (from_id, to_id).
add_pending_like(table, from_id, to_id, from_name) ==
    BagFilter(table, LAMBDA r : ~(r[1] = from_id /\ r[2] = to_id))
        (+) SetToBag({<<from_id, to_id, from_name>>})

\* Mutant: the DELETE is keyed on the recipient alone.
remove_pending_like_any_sender(table, from_id, to_id) ==
    BagFilter(table, LAMBDA r : r[2] # to_id)

\* Mutant: the DELETE gets its two ids in the other order.
remove_pending_like_swapped(table, from_id, to_id) ==
    BagFilter(table, LAMBDA r : ~(r[1] = to_id /\ r[2] = from_id))

\* DELETE FROM pending_likes WHERE from_id = ? AND to_id = ?
remove_pending_like(table, from_id, to_id) ==
    BagFilter(table, LAMBDA r : ~(r[1] = from_id /\ r[2] = to_id))

\* Rows <<from_id, from_name>> of get_pending_likes.
get_pending_likes(table, to_id) ==
    {<<r[1], r[3]>> : r \in {x \in BagToSet(table) : x[2] = to_id}}

\* Mutant: the row is inserted whether or not the table holds it.
add_report_no_unique(table, reporter_id, reported_id) ==
    table (+) SetToBag({<<reporter_id, reported_id>>})

\* INSERT OR IGNORE INTO reports: UNIQUE(reporter_id, reported_id).
add_report(table, reporter_id, reported_id) ==
    IF BagIn(<<reporter_id, reported_id>>, table) THEN table
    ELSE table (+) SetToBag({<<reporter_id, reported_id>>})

\* DELETE FROM reports WHERE reported_id = ?
clear_reports_for(table, user_id) == BagFilter(table, LAMBDA r : r[2] # user_id)

\* UPDATE users SET is_active = ? WHERE telegram_id = ?
deactivate_user(active, tg_id) ==
    [u \in DOMAIN active |-> IF u = tg_id THEN FALSE ELSE active[u]]

activate_user(active, tg_id) ==
    [u \in DOMAIN active |-> IF u = tg_id THEN TRUE ELSE active[u]]

\* safe_db_execute for a write: the wrapper opens a connection of its own.
\* While the caller is itself inside a wrapped function that has written,
\* the caller's connection holds the write lock of the file: the statement
\* raises "database is locked", the wrapper logs it and the write is lost.
safe_db_execute(caller_holds_write_lock, before, after) ==
    IF caller_holds_write_lock THEN before ELSE after

DaySeconds == 24 * 60 * 60

\* Mutant: the ban row is stored with the time of the call as its expiry.
ban_user_temporarily_no_days(bans, user_id, days, t) ==
    [u \in DOMAIN bans |-> IF u = user_id THEN t ELSE bans[u]]

\* temp_bans after ban_user_temporarily.
ban_user_temporarily(bans, user_id, days, t) ==
    [u \in DOMAIN bans |-> IF u = user_id THEN t + days * DaySeconds ELSE bans[u]]

\* Mutant: the UPDATE of the nested deactivate_user call goes through.
ban_user_temporarily_active_written(active, user_id) ==
    deactivate_user(active, user_id)

\* users.is_active after ban_user_temporarily: deactivate_user is called
\* after the INSERT, inside the wrapped function.
ban_user_temporarily_active(active, user_id) ==
    safe_db_execute(TRUE, active, deactivate_user(active, user_id))

\* temp_bans after unban_user.
unban_user(bans, user_id) ==
    [u \in DOMAIN bans |-> IF u = user_id THEN None ELSE bans[u]]

\* Mutant: the UPDATE of the nested activate_user call goes through.
unban_user_active_written(active, user_id) ==
    activate_user(active, user_id)

\* users.is_active after unban_user: activate_user is called after the DELETE.
unban_user_active(active, user_id) ==
    safe_db_execute(TRUE, active, activate_user(active, user_id))

----------------------------------------------------------------------------
\* Ranking and the session queue (bot.py 776-884).

Abs(x) == IF x < 0 THEN -x ELSE x

VerifiedBonus == -20
KeywordBonus == -10

\* Row of get_all_active_partners: telegram_id, name, hours, age, bio (here:
\* whether it holds an affinity keyword), username, is_verified.
PartnerRow(u) ==
    <<u, FirstName(u), Hours(u), Age(u), BioHasKeyword(u), Username(u), IsVerified(u)>>

\* Mutant: the bonuses are added to the distance.
advanced_similarity_bonus_added(current_hours, current_age, partner) ==
    Abs(partner[3] - current_hours) + Abs(partner[4] - current_age)
        - 2 * (IF partner[7] THEN VerifiedBonus ELSE 0)
        - 2 * (IF partner[5] THEN KeywordBonus ELSE 0)

\* advanced_similarity in half units: twice the value the code computes, so
\* that 0.5 * |dh| + 0.5 * |da| stays an integer; the order is the same.
advanced_similarity(current_hours, current_age, partner) ==
    Abs(partner[3] - current_hours) + Abs(partner[4] - current_age)
        + 2 * (IF partner[7] THEN VerifiedBonus ELSE 0)
        + 2 * (IF partner[5] THEN KeywordBonus ELSE 0)

\* sorted(partners, key = ...): a stable sort, lowest key first; key is the
\* function from a partner to its score.
\* Mutant: the new entry goes in front of the entries of equal key.
RECURSIVE InsertByKeyBeforeEqual(_, _, _)
InsertByKeyBeforeEqual(s, x, key) ==
    IF s = <<>> THEN <<x>>
    ELSE IF key[x] <= key[Head(s)] THEN <<x>> \o s
    ELSE <<Head(s)>> \o InsertByKeyBeforeEqual(Tail(s), x, key)

RECURSIVE InsertByKey(_, _, _)
InsertByKey(s, x, key) ==
    IF s = <<>> THEN <<x>>
    ELSE IF key[x] < key[Head(s)] THEN <<x>> \o s
    ELSE <<Head(s)>> \o InsertByKey(Tail(s), x, key)

RECURSIVE SortedByKey(_, _)
SortedByKey(s, key) ==
    IF s = <<>> THEN <<>>
    ELSE InsertByKey(SortedByKey(SubSeq(s, 1, Len(s) - 1), key), s[Len(s)], key)

\* sorted(partners, key=lambda p: advanced_similarity(cur_hours, cur_age, p))
sorted_partners(cur_hours, cur_age, partners) ==
    SortedByKey(partners,
                [p \in Range(partners) |-> advanced_similarity(cur_hours, cur_age, p)])

\* The ids of partners_sorted in find_partner.
partners_sorted(active, bans, user_id, t) ==
    LET ids == get_all_active_partners(active, bans, user_id, t)
        partners == [i \in DOMAIN ids |-> PartnerRow(ids[i])]
        ranked == sorted_partners(Hours(user_id), Age(user_id), partners)
    IN [i \in DOMAIN ranked |-> ranked[i][1]]

\* Entry of the history of calls: the key, datetime.now() and the value returned.
Call(key, t, ok) == [key |-> key, at |-> t, ok |-> ok]

FindPartnerLimit == 10
FindPartnerPeriod == 60

Reply(action, text) == [action |-> action, text |-> text]

\* Mutant: the new ranking is put behind what is left of the old queue.
FindPartnerMerging(u) ==
    LET key == LimiterKey(u, "find_partner")
        allowed == check_limit(requests, key, FindPartnerLimit, FindPartnerPeriod, now)
        sorted == partners_sorted(is_active, temp_bans, u, now)
        built == /\ allowed
                 /\ ~is_user_banned(temp_bans, u, now)
                 /\ get_user_profile(is_active, u) # <<>>
                 /\ sorted # <<>>
    IN /\ requests' = check_limit_requests(requests, key, FindPartnerLimit,
                                            FindPartnerPeriod, now)
       /\ calls' = Append(calls, Call(key, now, allowed))
       /\ IF built
          THEN /\ partner_queue' = [partner_queue EXCEPT ![u] = @ \o sorted]
               /\ partner_data' = [partner_data EXCEPT ![u] = @ \cup Range(sorted)]
               /\ original_partners' = [original_partners EXCEPT ![u] = sorted]
               /\ current_partner_id' = [current_partner_id EXCEPT ![u] = sorted[1]]
               /\ presented' = [presented EXCEPT ![u] = <<sorted[1]>>]
               /\ reply' = Reply("find_partner", "partner")
          ELSE /\ UNCHANGED queueVars
               /\ reply' = Reply("find_partner", "no_partners")
       /\ UNCHANGED <<now, storeVars, likes, pending_likes, match_msgs, responded>>

\* Mutant: a request that builds nothing empties the queue.
FindPartnerClearing(u) ==
    LET key == LimiterKey(u, "find_partner")
        allowed == check_limit(requests, key, FindPartnerLimit, FindPartnerPeriod, now)
        sorted == partners_sorted(is_active, temp_bans, u, now)
        built == /\ allowed
                 /\ ~is_user_banned(temp_bans, u, now)
                 /\ get_user_profile(is_active, u) # <<>>
                 /\ sorted # <<>>
    IN /\ requests' = check_limit_requests(requests, key, FindPartnerLimit,
                                            FindPartnerPeriod, now)
       /\ calls' = Append(calls, Call(key, now, allowed))
       /\ IF built
          THEN /\ partner_queue' = [partner_queue EXCEPT ![u] = sorted]
               /\ partner_data' = [partner_data EXCEPT ![u] = Range(sorted)]
               /\ original_partners' = [original_partners EXCEPT ![u] = sorted]
               /\ current_partner_id' = [current_partner_id EXCEPT ![u] = sorted[1]]
               /\ presented' = [presented EXCEPT ![u] = <<sorted[1]>>]
               /\ reply' = Reply("find_partner", "partner")
          ELSE /\ partner_queue' = [partner_queue EXCEPT ![u] = <<>>]
               /\ UNCHANGED <<partner_data, original_partners, current_partner_id,
                              presented>>
               /\ reply' = Reply("find_partner",
                      IF ~allowed THEN "too_many_requests"
                      ELSE IF is_user_banned(temp_bans, u, now) THEN "banned"
                      ELSE IF get_user_profile(is_active, u) = <<>> THEN "no_profile"
                      ELSE "no_partners")
       /\ UNCHANGED <<now, storeVars, likes, pending_likes, match_msgs, responded>>

\* find_partner: the limiter, the ban check, the candidates, the new queue.
FindPartner(u) ==
    LET key == LimiterKey(u, "find_partner")
        allowed == check_limit(requests, key, FindPartnerLimit, FindPartnerPeriod, now)
        sorted == partners_sorted(is_active, temp_bans, u, now)
        built == /\ allowed
                 /\ ~is_user_banned(temp_bans, u, now)
                 /\ get_user_profile(is_active, u) # <<>>
                 /\ sorted # <<>>
    IN /\ requests' = check_limit_requests(requests, key, FindPartnerLimit,
                                            FindPartnerPeriod, now)
       /\ calls' = Append(calls, Call(key, now, allowed))
       /\ IF built
          THEN /\ partner_queue' = [partner_queue EXCEPT ![u] = sorted]
               /\ partner_data' = [partner_data EXCEPT ![u] = Range(sorted)]
               /\ original_partners' = [original_partners EXCEPT ![u] = sorted]
               /\ current_partner_id' = [current_partner_id EXCEPT ![u] = sorted[1]]
               /\ presented' = [presented EXCEPT ![u] = <<sorted[1]>>]
               /\ reply' = Reply("find_partner", "partner")
          ELSE /\ UNCHANGED queueVars
               /\ reply' = Reply("find_partner",
                      IF ~allowed THEN "too_many_requests"
                      ELSE IF is_user_banned(temp_bans, u, now) THEN "banned"
                      ELSE IF get_user_profile(is_active, u) = <<>> THEN "no_profile"
                      ELSE "no_partners")
       /\ UNCHANGED <<now, storeVars, likes, pending_likes, match_msgs, responded>>

\* Mutant: the head is read and stays in the queue.
next_partner_queue_keep(queue) == queue

\* next_partner: pops the head of the queue and shows it; an empty queue
\* shows the restart keyboard and changes nothing.
next_partner_queue(queue) == IF queue = <<>> THEN queue ELSE Tail(queue)

next_partner_shown(queue, data, shown) ==
    IF queue # <<>> /\ Head(queue) \in data THEN Head(queue) ELSE shown

\* The message that all partners were seen, with the restart keyboard.
Exhausted == -1

\* The history of the session after next_partner; nothing is recorded before
\* the first build and after the first exhaustion signal.
next_partner_presented(queue, data, original, seen) ==
    IF original = <<>> \/ (seen # <<>> /\ seen[Len(seen)] = Exhausted) THEN seen
    ELSE IF queue = <<>> THEN Append(seen, Exhausted)
    ELSE IF Head(queue) \in data THEN Append(seen, Head(queue))
    ELSE seen

NextPartner(u) ==
    /\ partner_queue' = [partner_queue EXCEPT ![u] = next_partner_queue(@)]
    /\ current_partner_id' = [current_partner_id EXCEPT
          ![u] = next_partner_shown(partner_queue[u], partner_data[u], @)]
    /\ presented' = [presented EXCEPT
          ![u] = next_partner_presented(partner_queue[u], partner_data[u],
                                        original_partners[u], @)]
    /\ UNCHANGED <<partner_data, original_partners>>

----------------------------------------------------------------------------
\* Match notification (bot.py 1191-1218).

\* Number of names the profile row is unpacked into.
NotifyUnpackTargets == 6

\* match_msgs after notify_match: nothing is sent when a profile is missing;
\* unpacking a row into a different number of names raises ValueError before
\* the first send_message.
notify_match(msgs, active, user_a, user_b) ==
    LET a_profile == get_user_profile(active, user_a)
        b_profile == get_user_profile(active, user_b)
    IN IF a_profile = <<>> \/ b_profile = <<>> THEN msgs
       ELSE IF Len(a_profile) # NotifyUnpackTargets
               \/ Len(b_profile) # NotifyUnpackTargets THEN msgs
       ELSE msgs (+) SetToBag({<<user_a, user_b>>}) (+) SetToBag({<<user_b, user_a>>})

----------------------------------------------------------------------------
\* handle_callback (bot.py 887-1096).  The callback data of a button is the
\* list query.data.split("_") yields and action is its first item.

LikeData(partner_id) == <<"like", partner_id>>
DislikeData(partner_id) == <<"dislike", partner_id>>
\* Mutant: the accept button carries the data of the reject button.
RespondLikeDataAsDislike(from_id) == <<"respond", "dislike", from_id>>
RespondLikeData(from_id) == <<"respond", "like", from_id>>
RespondDislikeData(from_id) == <<"respond", "dislike", from_id>>
ReportData(partner_id) == <<"report", partner_id>>
ActivateProfileData == <<"activate", "profile">>
DeactivateProfileData == <<"deactivate", "profile">>
AdminClearReportsData(reported_id) == <<"admin", "clear", "reports", reported_id>>
AdminBanData(reported_id) == <<"admin", "ban", "5d", reported_id>>
AdminUnbanData(target_id) == <<"admin", "unban", target_id>>
RestartSearchData == <<"restart", "search">>

Edge0(table, from_id, to_id) == BagIn(<<from_id, to_id>>, table)

HasPending(table, from_id, to_id) ==
    \E r \in BagToSet(table) : r[1] = from_id /\ r[2] = to_id

Responded(table, from_id, to_id) ==
    IF HasPending(table, from_id, to_id) THEN responded \cup {<<from_id, to_id>>}
    ELSE responded

\* Mutant: the pending like is stored only with an edge that is new.
LikeBranchPendingOnNewEdge(u, partner_id) ==
    LET is_match == add_like(likes, u, partner_id)
    IN /\ likes' = add_like_rows(likes, u, partner_id)
       /\ IF is_match
          THEN /\ reply' = Reply("like", "match")
               /\ match_msgs' = notify_match(match_msgs, is_active, u, partner_id)
               /\ UNCHANGED <<pending_likes, queueVars>>
          ELSE /\ reply' = Reply("like", "like_sent")
               /\ pending_likes' = IF BagIn(<<u, partner_id>>, likes)
                                   THEN pending_likes
                                   ELSE add_pending_like(pending_likes, u, partner_id,
                                                         FirstName(u))
               /\ NextPartner(u)
               /\ UNCHANGED match_msgs
       /\ UNCHANGED <<limiterVars, storeVars, responded>>

\* Mutant: next_partner is called after a match as well.
LikeBranchAlwaysAdvances(u, partner_id) ==
    LET is_match == add_like(likes, u, partner_id)
    IN /\ likes' = add_like_rows(likes, u, partner_id)
       /\ IF is_match
          THEN /\ reply' = Reply("like", "match")
               /\ match_msgs' = notify_match(match_msgs, is_active, u, partner_id)
               /\ NextPartner(u)
               /\ UNCHANGED pending_likes
          ELSE /\ reply' = Reply("like", "like_sent")
               /\ pending_likes' = add_pending_like(pending_likes, u, partner_id,
                                                     FirstName(u))
               /\ NextPartner(u)
               /\ UNCHANGED match_msgs
       /\ UNCHANGED <<limiterVars, storeVars, responded>>

\* action == "like"
LikeBranch(u, partner_id) ==
    LET is_match == add_like(likes, u, partner_id)
    IN /\ likes' = add_like_rows(likes, u, partner_id)
       /\ IF is_match
          THEN /\ reply' = Reply("like", "match")
               /\ match_msgs' = notify_match(match_msgs, is_active, u, partner_id)
               /\ UNCHANGED <<pending_likes, queueVars>>
          ELSE /\ reply' = Reply("like", "like_sent")
               /\ pending_likes' = add_pending_like(pending_likes, u, partner_id,
                                                     FirstName(u))
               /\ NextPartner(u)
               /\ UNCHANGED match_msgs
       /\ UNCHANGED <<limiterVars, storeVars, responded>>

\* Mutant: the dislike is stored as an edge.
DislikeBranchStored(u, partner_id) ==
    /\ reply' = Reply("dislike", "dislike")
    /\ likes' = add_like_rows(likes, u, partner_id)
    /\ NextPartner(u)
    /\ UNCHANGED <<limiterVars, storeVars, pending_likes, match_msgs, responded>>

\* action == "dislike"
DislikeBranch(u, partner_id) ==
    /\ reply' = Reply("dislike", "dislike")
    /\ NextPartner(u)
    /\ UNCHANGED <<limiterVars, storeVars, likes, pending_likes, match_msgs, responded>>

\* action == "respond", resp_type == "like".  show_next_like is handed
\* query.message, which has no .message to reply through: it raises before
\* it shows anything.
RespondLikeBranch(u, from_id) ==
    LET is_match == add_like(likes, u, from_id)
    IN /\ likes' = add_like_rows(likes, u, from_id)
       /\ pending_likes' = remove_pending_like(pending_likes, from_id, u)
       /\ IF is_match
          THEN /\ reply' = Reply("respond", "match")
               /\ match_msgs' = notify_match(match_msgs, is_active, u, from_id)
          ELSE /\ reply' = Reply("respond", "liked_back")
               /\ UNCHANGED match_msgs
       /\ responded' = Responded(pending_likes, from_id, u)
       /\ UNCHANGED <<limiterVars, storeVars, queueVars>>

\* action == "respond", any other resp_type
RespondDislikeBranch(u, from_id) ==
    /\ pending_likes' = remove_pending_like(pending_likes, from_id, u)
    /\ reply' = Reply("respond", "declined")
    /\ responded' = Responded(pending_likes, from_id, u)
    /\ UNCHANGED <<limiterVars, storeVars, queueVars, likes, match_msgs>>

\* action == "report"
ReportBranch(u, reported_id) ==
    /\ reports' = add_report(reports, u, reported_id)
    /\ filed' = Append(filed, <<u, reported_id>>)
    /\ reply' = Reply("report", "report_sent")
    /\ UNCHANGED <<limiterVars, is_active, temp_bans, queueVars, likes, pending_likes,
                   match_msgs, responded>>

\* action == "activate_profile" / "deactivate_profile"
SetActiveBranch(u, shown) ==
    /\ is_active' = IF shown THEN activate_user(is_active, u)
                     ELSE deactivate_user(is_active, u)
    /\ reply' = IF shown THEN Reply("activate_profile", "profile_shown")
                 ELSE Reply("deactivate_profile", "profile_hidden")
    /\ UNCHANGED <<limiterVars, temp_bans, reports, filed, queueVars, likes, pending_likes,
                   match_msgs, responded>>

\* action == "admin_clear_reports"
AdminClearReportsBranch(target_id) ==
    /\ reports' = clear_reports_for(reports, target_id)
    /\ reply' = Reply("admin_clear_reports", "reports_cleared")
    /\ UNCHANGED filed
    /\ UNCHANGED <<limiterVars, is_active, temp_bans, queueVars, likes, pending_likes,
                   match_msgs, responded>>

\* action == "admin_ban_5d"
AdminBanDays == 5

AdminBanBranch(target_id) ==
    /\ temp_bans' = ban_user_temporarily(temp_bans, target_id, AdminBanDays, now)
    /\ is_active' = ban_user_temporarily_active(is_active, target_id)
    /\ reports' = clear_reports_for(reports, target_id)
    /\ reply' = Reply("admin_ban_5d", "user_banned")
    /\ UNCHANGED filed
    /\ UNCHANGED <<limiterVars, queueVars, likes, pending_likes, match_msgs, responded>>

\* action == "admin_unban"
AdminUnbanBranch(target_id) ==
    /\ temp_bans' = unban_user(temp_bans, target_id)
    /\ is_active' = unban_user_active(is_active, target_id)
    /\ reply' = Reply("admin_unban", "user_unbanned")
    /\ UNCHANGED <<limiterVars, reports, filed, queueVars, likes, pending_likes, match_msgs,
                   responded>>

\* action == "restart_search"
RestartSearchBranch(u) ==
    LET original == original_partners[u]
    IN IF original = <<>>
       THEN /\ reply' = Reply("restart_search", "nothing_to_restart")
            /\ UNCHANGED <<limiterVars, storeVars, queueVars, likes, pending_likes,
                           match_msgs, responded>>
       ELSE /\ partner_queue' = [partner_queue EXCEPT ![u] = original]
            /\ IF original[1] \in partner_data[u]
               THEN /\ current_partner_id' = [current_partner_id EXCEPT ![u] = original[1]]
                    /\ presented' = [presented EXCEPT ![u] = <<original[1]>>]
                    /\ reply' = Reply("restart_search", "restarted")
               ELSE /\ UNCHANGED <<current_partner_id, presented>>
                    /\ reply' = Reply("restart_search", "restart_error")
            /\ UNCHANGED <<limiterVars, storeVars, partner_data, original_partners, likes,
                           pending_likes, match_msgs, responded>>

\* No branch of the handler takes the action: query.answer() is all it does.
NoBranch(action) ==
    /\ reply' = Reply(action, "none")
    /\ UNCHANGED <<limiterVars, storeVars, queueVars, likes, pending_likes, match_msgs,
                   responded>>

\* Mutant: the ban button of the admin's list reaches its branch.
handle_callback_ban_reached(u, data) ==
    LET action == data[1]
    IN IF action \in {"like", "dislike"}
       THEN IF action = "like" THEN LikeBranch(u, data[2]) ELSE DislikeBranch(u, data[2])
       ELSE IF action = "respond"
       THEN IF data[2] = "like" THEN RespondLikeBranch(u, data[3])
            ELSE RespondDislikeBranch(u, data[3])
       ELSE IF action = "report" THEN ReportBranch(u, data[2])
       ELSE IF action = "admin" /\ data[2] = "ban" THEN AdminBanBranch(data[4])
       ELSE NoBranch(action)

handle_callback(u, data) ==
    LET action == data[1]
    IN IF action \in {"like", "dislike"}
       THEN IF action = "like" THEN LikeBranch(u, data[2]) ELSE DislikeBranch(u, data[2])
       ELSE IF action = "respond"
       THEN IF data[2] = "like" THEN RespondLikeBranch(u, data[3])
            ELSE RespondDislikeBranch(u, data[3])
       ELSE IF action = "report" THEN ReportBranch(u, data[2])
       ELSE IF action = "activate_profile" THEN SetActiveBranch(u, TRUE)
       ELSE IF action = "deactivate_profile" THEN SetActiveBranch(u, FALSE)
       ELSE IF action = "admin_clear_reports" THEN AdminClearReportsBranch(data[2])
       ELSE IF action = "admin_ban_5d" THEN AdminBanBranch(data[2])
       ELSE IF action = "admin_unban" THEN AdminUnbanBranch(data[2])
       ELSE IF action = "restart_search" THEN RestartSearchBranch(u)
       ELSE NoBranch(action)

\* The buttons of the swipe queue and of the inbox.
LikeCallback(u, p) == handle_callback(u, LikeData(p))
DislikeCallback(u, p) == handle_callback(u, DislikeData(p))
RespondLike(u, f) == handle_callback(u, RespondLikeData(f))
RespondDislike(u, f) == handle_callback(u, RespondDislikeData(f))

\* The report button and the buttons of the profile and of the admin's list.
ReportCallback(u, p) == handle_callback(u, ReportData(p))
ActivateProfile(u) == handle_callback(u, ActivateProfileData)
DeactivateProfile(u) == handle_callback(u, DeactivateProfileData)
AdminClearReports(u, t) == handle_callback(u, AdminClearReportsData(t))
AdminBan(u, t) == handle_callback(u, AdminBanData(t))
AdminUnban(u, t) == handle_callback(u, AdminUnbanData(t))
RestartSearch(u) == handle_callback(u, RestartSearchData)

----------------------------------------------------------------------------
\* The menu button that hides the profile and the admin's text commands
\* (bot.py 710-714, 1274-1298).

HideProfile(u) ==
    /\ is_active' = deactivate_user(is_active, u)
    /\ reply' = Reply("hide_profile", "profile_hidden")
    /\ UNCHANGED <<limiterVars, temp_bans, reports, filed, queueVars, likes, pending_likes,
                   match_msgs, responded>>

BlockDays == 5

\* /block <id>
BlockCmd(tg_id) ==
    /\ temp_bans' = ban_user_temporarily(temp_bans, tg_id, BlockDays, now)
    /\ is_active' = ban_user_temporarily_active(is_active, tg_id)
    /\ reply' = Reply("block", "user_banned")
    /\ UNCHANGED <<limiterVars, reports, filed, queueVars, likes, pending_likes, match_msgs,
                   responded>>

\* Mutant: /unblock deletes the reports on the user as well.
UnblockCmdClearing(tg_id) ==
    /\ temp_bans' = unban_user(temp_bans, tg_id)
    /\ is_active' = unban_user_active(is_active, tg_id)
    /\ reports' = clear_reports_for(reports, tg_id)
    /\ reply' = Reply("unblock", "user_unbanned")
    /\ UNCHANGED <<limiterVars, filed, queueVars, likes, pending_likes, match_msgs,
                   responded>>

\* /unblock <id>
UnblockCmd(tg_id) ==
    /\ temp_bans' = unban_user(temp_bans, tg_id)
    /\ is_active' = unban_user_active(is_active, tg_id)
    /\ reply' = Reply("unblock", "user_unbanned")
    /\ UNCHANGED <<limiterVars, reports, filed, queueVars, likes, pending_likes, match_msgs,
                   responded>>

----------------------------------------------------------------------------
\* The bot with every profile registered, visible and not banned.

Init ==
    /\ now = 0
    /\ requests = <<>>
    /\ is_active = [u \in Users |-> TRUE]
    /\ temp_bans = [u \in Users |-> None]
    /\ likes = EmptyBag
    /\ pending_likes = EmptyBag
    /\ reports = EmptyBag
    /\ partner_queue = [u \in Users |-> <<>>]
    /\ partner_data = [u \in Users |-> {}]
    /\ original_partners = [u \in Users |-> <<>>]
    /\ current_partner_id = [u \in Users |-> None]
    /\ match_msgs = EmptyBag
    /\ reply = Reply("none", "none")
    /\ responded = {}
    /\ updates = 0
    /\ write_lock = None
    /\ conn = [u \in Users |-> [pc |-> "idle", to |-> None, fresh |-> FALSE,
                                 snapshot |-> EmptyBag, match |-> FALSE, calls |-> 0]]
    /\ calls = <<>>
    /\ presented = [u \in Users |-> <<>>]
    /\ ranking = [hours |-> 0, age |-> 0, partners |-> <<>>, sorted |-> <<>>]
    /\ filed = <<>>
    /\ faults = <<>>
    /\ main = [today |-> 0, cards |-> EmptyBag, likes |-> EmptyBag,
               daily_likes |-> <<>>, inserted |-> <<>>, answer |-> "none"]

\* The like buttons and the inbox: any number of updates.
Find == Len(calls) < MaxFinds /\ \E u \in Users : FindPartner(u)
Like == \E u \in Users : \E p \in Users \ {u} : LikeCallback(u, p)
Dislike == \E u \in Users : \E p \in Users \ {u} : DislikeCallback(u, p)
AcceptLike == \E u \in Users : \E f \in Users \ {u} : RespondLike(u, f)
RejectLike == \E u \in Users : \E f \in Users \ {u} : RespondDislike(u, f)

\* Handlers run one update at a time, each to its end.
Whole == UNCHANGED <<updates, write_lock, conn, ranking, faults, main>>

Next ==
    \/ Like /\ Whole
    \/ Dislike /\ Whole
    \/ AcceptLike /\ Whole
    \/ RejectLike /\ Whole

Spec == Init /\ [][Next]_vars

\* Every handler, at most MaxUpdates updates.
Report == \E u \in Users : \E p \in Users \ {u} : ReportCallback(u, p)
Hide == \E u \in Users : HideProfile(u)
Block == \E t \in Users : BlockCmd(t)
Unblock == \E t \in Users : UnblockCmd(t)
ProfileButtons == \E u \in Users : ActivateProfile(u) \/ DeactivateProfile(u)
AdminButtons ==
    \E u \in Users : \E t \in Users :
        AdminClearReports(u, t) \/ AdminBan(u, t) \/ AdminUnban(u, t)
Restart == \E u \in Users : RestartSearch(u)

Counted ==
    /\ updates < MaxUpdates
    /\ updates' = updates + 1
    /\ UNCHANGED <<write_lock, conn, ranking, faults, main>>

NextAll ==
    \/ Counted /\ Find
    \/ Counted /\ Like
    \/ Counted /\ Dislike
    \/ Counted /\ AcceptLike
    \/ Counted /\ RejectLike
    \/ Counted /\ Report
    \/ Counted /\ Hide
    \/ Counted /\ Block
    \/ Counted /\ Unblock
    \/ Counted /\ ProfileButtons
    \/ Counted /\ AdminButtons
    \/ Counted /\ Restart

SpecAll == Init /\ [][NextAll]_vars

----------------------------------------------------------------------------
\* Bans and eligibility: /block, /unblock, the menu button that hides the
\* profile and find-partner requests, while the clock runs day by day.

\* The users that hide their profile and that the admin bans and unbans in
\* these runs.
Moderated == {2, 3}

\* The users that ask for a partner in these runs.
Seekers == {1, 2}

FindSeeker == Len(calls) < MaxFinds /\ \E u \in Seekers : FindPartner(u)
HideModerated == \E u \in Moderated : HideProfile(u)
BlockModerated == \E t \in Moderated : BlockCmd(t)
UnblockModerated == \E t \in Moderated : UnblockCmd(t)

\* datetime.now() a day later.
TickDay ==
    /\ now < MaxDays * DaySeconds
    /\ now' = now + DaySeconds
    /\ UNCHANGED <<requests, calls, storeVars, queueVars, likes, pending_likes,
                   match_msgs, reply, responded>>

NextBan ==
    \/ FindSeeker /\ Whole
    \/ HideModerated /\ Whole
    \/ BlockModerated /\ Whole
    \/ UnblockModerated /\ Whole
    \/ TickDay /\ Whole

SpecBan == Init /\ [][NextBan]_vars

----------------------------------------------------------------------------
\* The limiter alone: check_limit called with its default limit and period
\* (bot.py 48) for a few keys, while the clock runs in steps of TickSeconds.

DefaultLimit == 5
DefaultPeriod == 60

\* The keys the calls are made for.
LimiterUsers == {1, 2}
LimiterActions == {"find_partner"}

\* limiter.check_limit(user_id, action)
Allow(user_id, action) ==
    LET key == LimiterKey(user_id, action)
        ok == check_limit(requests, key, DefaultLimit, DefaultPeriod, now)
    IN /\ Len(calls) < MaxCalls
       /\ requests' = check_limit_requests(requests, key, DefaultLimit, DefaultPeriod, now)
       /\ calls' = Append(calls, Call(key, now, ok))
       /\ reply' = Reply("check_limit", IF ok THEN "allowed" ELSE "denied")
       /\ UNCHANGED <<now, storeVars, queueVars, likes, pending_likes, match_msgs,
                      responded>>

\* datetime.now() TickSeconds later.
TickClock ==
    /\ now < MaxTicks * TickSeconds
    /\ now' = now + TickSeconds
    /\ UNCHANGED <<requests, calls, storeVars, queueVars, likes, pending_likes,
                   match_msgs, reply, responded>>

AllowCall == \E u \in LimiterUsers : \E a \in LimiterActions : Allow(u, a)

NextLimiter ==
    \/ AllowCall /\ Whole
    \/ TickClock /\ Whole

SpecLimiter == Init /\ [][NextLimiter]_vars

----------------------------------------------------------------------------
\* The session queue: find-partner requests, the like and dislike buttons of
\* the profile shown, the restart button and profiles being hidden.

LikeSeeker == \E u \in Seekers : \E p \in Users \ {u} : LikeCallback(u, p)
DislikeSeeker == \E u \in Seekers : \E p \in Users \ {u} : DislikeCallback(u, p)
RestartSeeker == \E u \in Seekers : RestartSearch(u)

NextQueue ==
    \/ FindSeeker /\ Whole
    \/ LikeSeeker /\ Whole
    \/ DislikeSeeker /\ Whole
    \/ RestartSeeker /\ Whole
    \/ HideModerated /\ Whole

SpecQueue == Init /\ [][NextQueue]_vars

----------------------------------------------------------------------------
\* The ranking on its own: sorted(partners, key=...) of find_partner applied
\* to candidate rows and to hours and age of the seeker drawn from small sets.

SeekerProfiles == {<<100, 20>>, <<500, 40>>}
CandidateIds == {2, 3}
CandidateHours == {110, 500}
CandidateAges == {22, 40}

CandidateRows ==
    {<<id, FirstName(id), h, a, kw, Username(id), v>> :
        id \in CandidateIds, h \in CandidateHours, a \in CandidateAges,
        kw \in BOOLEAN, v \in BOOLEAN}

RankCall(cur_hours, cur_age, partners) ==
    /\ ranking' = [hours |-> cur_hours, age |-> cur_age, partners |-> partners,
                   sorted |-> sorted_partners(cur_hours, cur_age, partners)]
    /\ UNCHANGED <<limiterVars, storeVars, queueVars, likes, pending_likes, match_msgs,
                   reply, responded, updates, write_lock, conn, faults, main>>

\* One call per run, on any of the inputs.
NextRank ==
    /\ ranking.hours = 0
    /\ \E self \in SeekerProfiles : \E n \in 0..MaxCandidates :
          \E partners \in [1..n -> CandidateRows] :
              RankCall(self[1], self[2], partners)

SpecRank == Init /\ [][NextRank]_vars

----------------------------------------------------------------------------
\* Reports and their summary: the report button, /reports, /block and /unblock
\* and the buttons of the admin's list.

\* COUNT(*) of the group of a reported id.
CountRows(table, reported_id) ==
    BagCardinality(BagFilter(table, LAMBDA r : r[2] = reported_id))

\* The orders in which GROUP BY reported_id can produce its groups.
GroupOrders(table) ==
    LET ids == {r[2] : r \in BagToSet(table)}
    IN {g \in [1..Cardinality(ids) -> ids] :
           \A i \in DOMAIN g : \A k \in DOMAIN g : g[i] = g[k] => i = k}

\* Mutant: ORDER BY cnt, ascending.
get_reports_summary_ascending(table, groups) ==
    LET rows == [i \in DOMAIN groups |-> <<groups[i], CountRows(table, groups[i])>>]
        having == SelectSeq(rows, LAMBDA g : g[2] > 0)
    IN SortedByKey(having, [g \in Range(having) |-> g[2]])

\* get_reports_summary: SELECT reported_id, COUNT(*) AS cnt FROM reports
\* GROUP BY reported_id HAVING cnt > 0 ORDER BY cnt DESC.
get_reports_summary(table, groups) ==
    LET rows == [i \in DOMAIN groups |-> <<groups[i], CountRows(table, groups[i])>>]
        having == SelectSeq(rows, LAMBDA g : g[2] > 0)
    IN SortedByKey(having, [g \in Range(having) |-> 0 - g[2]])

\* /reports: one message for each row of the summary, or the note that
\* there is none.
reports_command(groups) ==
    LET summary == get_reports_summary(reports, groups)
    IN /\ reply' = [action |-> "reports",
                    text |-> IF summary = <<>> THEN "no_reports" ELSE "reports_list",
                    summary |-> summary]
       /\ UNCHANGED <<limiterVars, storeVars, queueVars, likes, pending_likes,
                      match_msgs, responded>>

ReportsCommand == \E groups \in GroupOrders(reports) : reports_command(groups)

ReportModerated ==
    /\ Len(filed) < MaxReports
    /\ \E u \in Users : \E p \in Moderated \ {u} : ReportCallback(u, p)

\* The admin pressing the buttons of the list for a moderated user.
Admins == {1}
AdminButtonsModerated ==
    \E u \in Admins : \E t \in Moderated :
        AdminClearReports(u, t) \/ AdminBan(u, t) \/ AdminUnban(u, t)

NextReports ==
    \/ ReportModerated /\ Whole
    \/ ReportsCommand /\ Whole
    \/ BlockModerated /\ Whole
    \/ UnblockModerated /\ Whole
    \/ AdminButtonsModerated /\ Whole

SpecReports == Init /\ [][NextReports]_vars

----------------------------------------------------------------------------
\* The like button while the store fails: a statement of add_like raises
\* sqlite3.Error. Database.__exit__ commits whatever the connection has
\* written, also when it is left by an exception, and rolls back only when
\* the commit itself raises; safe_db_execute logs the error and returns None.

\* at: the statement of add_like that raises; committed: the commit of
\* __exit__ goes through; pending_ok: the store answers again by the time of
\* add_pending_like.
Faults == [at : {"insert", "select"}, committed : BOOLEAN, pending_ok : BOOLEAN]

\* likes after add_like with the fault: the row of an INSERT that went
\* through is committed by __exit__.
add_like_rows_failing(table, from_id, to_id, fault) ==
    IF fault.at = "select" /\ fault.committed
    THEN InsertLike(table, from_id, to_id)
    ELSE table

\* action == "like" with the fault: is_match is None, the branch of no match
\* runs.
LikeBranchStoreFails(u, partner_id, fault) ==
    /\ likes' = add_like_rows_failing(likes, u, partner_id, fault)
    /\ reply' = Reply("like", "like_sent")
    /\ pending_likes' = IF fault.pending_ok
                        THEN add_pending_like(pending_likes, u, partner_id, FirstName(u))
                        ELSE pending_likes
    /\ NextPartner(u)
    /\ faults' = Append(faults, fault)
    /\ UNCHANGED <<limiterVars, storeVars, match_msgs, responded, updates, write_lock,
                   conn, ranking, main>>

LikeStoreFails ==
    /\ Len(faults) < MaxFaults
    /\ \E u \in Users : \E p \in Users \ {u} : \E fault \in Faults :
          LikeBranchStoreFails(u, p, fault)

NextFail ==
    \/ Like /\ Whole
    \/ LikeStoreFails

SpecFail == Init /\ [][NextFail]_vars

----------------------------------------------------------------------------
\* Rebuilds: find-partner requests of users who have a queue, between
\* dislikes and profiles being hidden.

Rebuild == Len(calls) < MaxBuilds /\ \E u \in Seekers : FindPartner(u)

NextRebuild ==
    \/ Rebuild /\ Whole
    \/ DislikeSeeker /\ Whole
    \/ HideModerated /\ Whole

SpecRebuild == Init /\ [][NextRebuild]_vars

----------------------------------------------------------------------------
\* Requests that build nothing: one user asks for a partner again and again,
\* is blocked, finds everybody else hidden, or has get_all_active_partners
\* fail on the store.

Requester == 2

\* find_partner with get_all_active_partners failing: safe_db_execute
\* returns None, which the handler reads as no candidates.
FindPartnerFetchFails(u) ==
    LET key == LimiterKey(u, "find_partner")
        allowed == check_limit(requests, key, FindPartnerLimit, FindPartnerPeriod, now)
    IN /\ allowed
       /\ ~is_user_banned(temp_bans, u, now)
       /\ requests' = check_limit_requests(requests, key, FindPartnerLimit,
                                            FindPartnerPeriod, now)
       /\ calls' = Append(calls, Call(key, now, allowed))
       /\ reply' = Reply("find_partner", "no_partners")
       /\ faults' = Append(faults, [at |-> "fetch", committed |-> FALSE,
                                    pending_ok |-> FALSE])
       /\ UNCHANGED <<now, storeVars, queueVars, likes, pending_likes, match_msgs,
                      responded, updates, write_lock, conn, ranking, main>>

Request == Len(calls) < MaxRequests /\ FindPartner(Requester)
RequestFetchFails ==
    /\ Len(calls) < MaxRequests
    /\ Len(faults) < MaxFaults
    /\ FindPartnerFetchFails(Requester)
DislikeRequester == \E p \in Users \ {Requester} : DislikeCallback(Requester, p)
BlockRequester == BlockCmd(Requester)
HideOthers == \E u \in Users \ {Requester} : HideProfile(u)

NextDenied ==
    \/ Request /\ Whole
    \/ RequestFetchFails
    \/ DislikeRequester /\ Whole
    \/ BlockRequester /\ Whole
    \/ HideOthers /\ Whole

SpecDenied == Init /\ [][NextDenied]_vars

----------------------------------------------------------------------------
\* The limiter over hours: check_limit called for a few keys while the clock
\* runs in steps of an hour.  The clock always goes on; no call is ever owed.

HourSeconds == 60 * 60

\* datetime.now() an hour later.
TickHour ==
    /\ now < MaxHours * HourSeconds
    /\ now' = now + HourSeconds
    /\ UNCHANGED <<requests, calls, storeVars, queueVars, likes, pending_likes,
                   match_msgs, reply, responded>>

NextHours ==
    \/ AllowCall /\ Whole
    \/ TickHour /\ Whole

SpecHours == Init /\ [][NextHours]_vars /\ WF_vars(TickHour /\ Whole)

----------------------------------------------------------------------------
\* A ban running out: /block and find-partner requests while the clock runs in
\* steps of a day, with no /unblock and no profile hidden.  A ban is applied
\* early enough for the clock of the run to pass its expiry; the clock always
\* goes on.

BlockEarly ==
    /\ now < (MaxDays - BlockDays) * DaySeconds
    /\ BlockModerated

NextLift ==
    \/ FindSeeker /\ Whole
    \/ BlockEarly /\ Whole
    \/ TickDay /\ Whole

SpecLift == Init /\ [][NextLift]_vars /\ WF_vars(TickDay /\ Whole)

----------------------------------------------------------------------------
\* main.py: /search, the like and skip buttons of a card, the reset button of
\* the settings and the date changing.  Every user has a profile; main is the
\* record of the date, of the cards sent that still carry their buttons (bag
\* of <<user_id, target_id>>), of the table likes (bag of <<liker_id,
\* liked_id>>), of the table daily_likes (<<user_id, date>> -> count), of the
\* history inserted (<<user_id, date>> -> rows put into likes on that date)
\* and of the last answer.

MAX_DAILY_LIKES == 10

\* The variables of bot.py.
botVars == <<now, requests, is_active, temp_bans, likes, pending_likes, reports,
             partner_queue, partner_data, original_partners, current_partner_id,
             match_msgs, reply, responded, updates, write_lock, conn, calls,
             presented, ranking, filed, faults>>

\* The users that talk to main.py in these runs.
MainUsers == {1}

\* profiles.photo_id
PhotoId(user_id) == IF user_id = 2 THEN 1 ELSE None

CountOf(table, key) == IF key \in DOMAIN table THEN table[key] ELSE 0

Database_get_daily_likes_count(daily_likes, user_id, today) ==
    CountOf(daily_likes, <<user_id, today>>)

\* INSERT OR IGNORE of the row of today, then count = count + 1.
Database_increment_daily_likes(daily_likes, user_id, today) ==
    [k \in DOMAIN daily_likes \cup {<<user_id, today>>} |->
        IF k = <<user_id, today>> THEN CountOf(daily_likes, k) + 1
        ELSE daily_likes[k]]

\* The profiles get_random_profile may return.
Database_get_random_profile(table, exclude_user_id) ==
    {p \in Users : p # exclude_user_id /\ ~BagIn(<<exclude_user_id, p>>, table)}

\* INSERT INTO likes: the table has no key but the row id.
Database_add_like_rows(table, liker_id, liked_id) ==
    table (+) SetToBag({<<liker_id, liked_id>>})

\* DELETE FROM daily_likes WHERE user_id = ? AND date = ?
reset_likes(daily_likes, user_id, today) ==
    [k \in DOMAIN daily_likes \ {<<user_id, today>>} |-> daily_likes[k]]

\* search: as a command the update has a message to reply to; called from
\* button_handler update.message is None, so that only the card of a profile
\* with a photo, which is sent through context.bot, goes out.  m is main as
\* the caller left it; the value is the set of what main may be afterwards.
search(m, user_id, as_command) ==
    IF Database_get_daily_likes_count(m.daily_likes, user_id, m.today) >= MAX_DAILY_LIKES
    THEN {[m EXCEPT !.answer = "limit_reached"]}
    ELSE LET found == Database_get_random_profile(m.likes, user_id)
         IN IF found = {}
            THEN {[m EXCEPT !.answer = "no_profiles"]}
            ELSE {IF as_command \/ PhotoId(p) # None
                  THEN [m EXCEPT !.cards = @ (+) SetToBag({<<user_id, p>>}),
                                 !.answer = "card"]
                  ELSE m : p \in found}

\* /search
SearchCmd(user_id) ==
    /\ BagCardinality(main.cards) < MaxCards
    /\ main' \in search(main, user_id, TRUE)
    /\ UNCHANGED botVars

\* button_handler, the like button of a card of target_id.
LikeButton(user_id, target_id) ==
    /\ BagIn(<<user_id, target_id>>, main.cards)
    /\ BagCardinality(main.likes) < MaxLikeRows
    /\ IF Database_get_daily_likes_count(main.daily_likes, user_id, main.today)
            >= MAX_DAILY_LIKES
       THEN main' = [main EXCEPT !.answer = "limit_reached"]
       ELSE LET key == <<user_id, main.today>>
                liked == [main EXCEPT
                    !.daily_likes = Database_increment_daily_likes(@, user_id, main.today),
                    !.likes = Database_add_like_rows(@, user_id, target_id),
                    !.inserted = [k \in DOMAIN @ \cup {key} |->
                                    IF k = key THEN CountOf(@, k) + 1 ELSE @[k]],
                    !.cards = @ (-) SetToBag({<<user_id, target_id>>}),
                    !.answer = "like_sent"]
            IN main' \in search(liked, user_id, FALSE)
    /\ UNCHANGED botVars

\* button_handler, the skip button of a card of target_id.
SkipButton(user_id, target_id) ==
    /\ BagIn(<<user_id, target_id>>, main.cards)
    /\ LET skipped == [main EXCEPT
                !.cards = @ (-) SetToBag({<<user_id, target_id>>}),
                !.answer = "skipped"]
       IN main' \in search(skipped, user_id, FALSE)
    /\ UNCHANGED botVars

\* settings_callback, data reset_likes.
settings_callback(user_id) ==
    /\ main' = [main EXCEPT
          !.daily_likes = reset_likes(@, user_id, main.today),
          !.answer = "limit_reset"]
    /\ UNCHANGED botVars

\* datetime.now().date() a day later.
TickDate ==
    /\ main.today < MaxDates
    /\ main' = [main EXCEPT !.today = @ + 1]
    /\ UNCHANGED botVars

MainSearch == \E u \in MainUsers : SearchCmd(u)
MainLike == \E u \in MainUsers : \E p \in Users : LikeButton(u, p)
MainSkip == \E u \in MainUsers : \E p \in Users : SkipButton(u, p)
MainReset == \E u \in MainUsers : settings_callback(u)

NextMain ==
    \/ MainSearch
    \/ MainLike
    \/ MainSkip
    \/ MainReset
    \/ TickDate

SpecMain == Init /\ [][NextMain]_vars

----------------------------------------------------------------------------
\* Like buttons handled side by side, each on a connection of its own
\* (Database, bot.py 69-80, and add_like, bot.py 244-257).  sqlite3 opens the
\* transaction at the INSERT, which takes the write lock of the file, and
\* __exit__ commits; a connection that finds the lock taken waits for it.  A
\* wait beyond the timeout of the connection is a store failure and is not
\* part of this specification.

\* The connection of u can start a write transaction.
CanWrite(lock, u) == lock = None

\* The update "like_<p>" reaches the handler of u.
LikeArrives(u, p) ==
    /\ conn[u].pc \in {"idle", "done"}
    /\ conn[u].calls < MaxLikeCalls
    /\ conn' = [conn EXCEPT ![u] = [pc |-> "insert", to |-> p,
                                     fresh |-> ~Edge0(likes, u, p) /\ ~Edge0(likes, p, u),
                                     snapshot |-> EmptyBag, match |-> FALSE,
                                     calls |-> @.calls + 1]]
    /\ UNCHANGED <<limiterVars, storeVars, queueVars, likes, pending_likes, match_msgs,
                   reply, responded, updates, ranking, faults, main, write_lock>>

\* INSERT OR IGNORE INTO likes: the transaction of u starts on the rows
\* committed so far.
InsertStep(u) ==
    /\ conn[u].pc = "insert"
    /\ CanWrite(write_lock, u)
    /\ write_lock' = u
    /\ conn' = [conn EXCEPT ![u].pc = "select", ![u].snapshot = likes]
    /\ UNCHANGED <<limiterVars, storeVars, queueVars, likes, pending_likes, match_msgs,
                   reply, responded, updates, ranking, faults, main>>

\* SELECT 1 FROM likes for the reverse row, on the rows the transaction sees.
SelectStep(u) ==
    /\ conn[u].pc = "select"
    /\ conn' = [conn EXCEPT ![u].pc = "commit",
                             ![u].match = add_like(conn[u].snapshot, u, conn[u].to)]
    /\ UNCHANGED <<limiterVars, storeVars, queueVars, likes, pending_likes, match_msgs,
                   reply, responded, updates, ranking, faults, main, write_lock>>

\* Database.__exit__: the row of u is committed and the lock is released.
CommitStep(u) ==
    /\ conn[u].pc = "commit"
    /\ likes' = add_like_rows(likes, u, conn[u].to)
    /\ write_lock' = IF write_lock = u THEN None ELSE write_lock
    /\ conn' = [conn EXCEPT ![u].pc = "returned"]
    /\ UNCHANGED <<limiterVars, storeVars, queueVars, pending_likes, match_msgs,
                   reply, responded, updates, ranking, faults, main>>

\* The rest of the "like" branch: the match is announced, or the pending like
\* is written (a write of its own) and the next partner is shown.
FinishStep(u) ==
    /\ conn[u].pc = "returned"
    /\ IF conn[u].match
       THEN /\ reply' = Reply("like", "match")
            /\ match_msgs' = notify_match(match_msgs, is_active, u, conn[u].to)
            /\ UNCHANGED <<pending_likes, queueVars>>
       ELSE /\ CanWrite(write_lock, u)
            /\ reply' = Reply("like", "like_sent")
            /\ pending_likes' = add_pending_like(pending_likes, u, conn[u].to,
                                                  FirstName(u))
            /\ NextPartner(u)
            /\ UNCHANGED match_msgs
    /\ conn' = [conn EXCEPT ![u].pc = "done"]
    /\ UNCHANGED <<limiterVars, storeVars, likes, responded, updates, ranking, faults, main, write_lock>>

Arrive == \E u \in Users : \E p \in Users \ {u} : LikeArrives(u, p)
Insert == \E u \in Users : InsertStep(u)
Select == \E u \in Users : SelectStep(u)
Commit == \E u \in Users : CommitStep(u)
Finish == \E u \in Users : FinishStep(u)

NextConc == Arrive \/ Insert \/ Select \/ Commit \/ Finish

SpecConc == Init /\ [][NextConc]_vars

----------------------------------------------------------------------------
\* The like and match engine: properties.

Pairs == {pr \in Users \X Users : pr[1] # pr[2]}

Edge(a, b) == BagIn(<<a, b>>, likes)
Pending(a, b) == HasPending(pending_likes, a, b)
Matched(a, b) == Edge(a, b) /\ Edge(b, a)

\* Number of rows of the pending_likes table t for the like of a to b.
RECURSIVE SumCopies(_, _)
SumCopies(t, rows) ==
    IF rows = {} THEN 0
    ELSE LET r == CHOOSE x \in rows : TRUE
         IN t[r] + SumCopies(t, rows \ {r})

PendingCount(t, a, b) == SumCopies(t, {r \in DOMAIN t : r[1] = a /\ r[2] = b})

\* The pending like of a to b was there and b's response consumed it.
Consumed(a, b) == <<a, b>> \in responded /\ ~Pending(a, b)

\* No pending like of a to b was ever created.
NeverPending(a, b) == <<a, b>> \notin responded /\ ~Pending(a, b)

\* C1: with no edge between a and b, like(a, b) answers "like sent" and leaves
\* a pending like, not a match; with the edge (a, b) alone there, like(b, a)
\* answers "match": the match is reported by the call that inserts the second
\* edge of the pair.
C1_MatchOnSecondLike ==
    [][\A pr \in Pairs :
        LET a == pr[1]
            b == pr[2]
        IN /\ (LikeCallback(a, b) /\ ~Edge(a, b) /\ ~Edge(b, a))
              => /\ reply' = Reply("like", "like_sent")
                 /\ HasPending(pending_likes', a, b)
                 /\ BagIn(<<a, b>>, likes')
           /\ (LikeCallback(b, a) /\ Edge(a, b) /\ ~Edge(b, a))
              => /\ reply' = Reply("like", "match")
                 /\ BagIn(<<b, a>>, likes')]_vars

\* 1 liked 2 first (the pending like of 1 is still there), then 2 liked 1 in
\* the swipe queue and got the match.
C1_Witness ==
    /\ reply = Reply("like", "match")
    /\ BagToSet(likes) = {<<1, 2>>, <<2, 1>>}
    /\ Pending(1, 2) /\ ~Pending(2, 1)
    /\ responded = {}

\* C2: in every state, each user of a matched pair has received exactly one
\* match notification about the other.
C2_ExactlyOneNotification ==
    \A pr \in Pairs :
        Matched(pr[1], pr[2]) => CopiesIn(<<pr[1], pr[2]>>, match_msgs) = 1

\* The two like calls of a and b for each other, both issued while no edge
\* joined them, have both ended.
BothReturned(a, b) ==
    /\ conn[a].pc = "done" /\ conn[b].pc = "done"
    /\ conn[a].to = b /\ conn[b].to = a
    /\ conn[a].fresh /\ conn[b].fresh

\* C3: when a and b press the like button for each other from a state with
\* neither edge, every interleaving of the two calls ends with exactly one of
\* them reporting the match and with one match notification for a and one
\* for b.
C3_ExactlyOneNotificationPair ==
    \A pr \in Pairs :
        BothReturned(pr[1], pr[2])
        => /\ conn[pr[1]].match # conn[pr[2]].match
           /\ CopiesIn(<<pr[1], pr[2]>>, match_msgs) = 1
           /\ CopiesIn(<<pr[2], pr[1]>>, match_msgs) = 1

\* C3, the part on the two calls alone: exactly one of them returns the match
\* and both edges are committed.
C3_ExactlyOneCallReportsMatch ==
    \A pr \in Pairs :
        BothReturned(pr[1], pr[2])
        => (conn[pr[1]].match # conn[pr[2]].match) /\ Matched(pr[1], pr[2])

\* 1 and 2 pressed like for each other before either row was committed and
\* both handlers have ended.
C3_Witness == BothReturned(1, 2)

\* C4: like(a, b) with the edge (a, b) there and (b, a) not leaves the likes
\* table as it is, with one row (a, b), leaves exactly one pending like of a
\* to b and reports no match.
C4_RelikeIdempotent ==
    [][\A pr \in Pairs :
        LET a == pr[1]
            b == pr[2]
        IN (LikeCallback(a, b) /\ Edge(a, b) /\ ~Edge(b, a))
           => /\ likes' = likes
              /\ CopiesIn(<<a, b>>, likes') = 1
              /\ PendingCount(pending_likes', a, b) = 1
              /\ reply' = Reply("like", "like_sent")
              /\ match_msgs' = match_msgs]_vars

\* 2 declined the like of 1, so the edge (1, 2) was there, and 1 has liked 2
\* again: the pending like is back.
C4_Witness ==
    /\ reply = Reply("like", "like_sent")
    /\ BagToSet(likes) = {<<1, 2>>}
    /\ <<1, 2>> \in responded
    /\ Pending(1, 2)

\* C5: a step of any handler keeps both edges of every matched pair.
C5_MatchPermanent ==
    [][\A pr \in Pairs :
        Matched(pr[1], pr[2])
        => BagIn(<<pr[1], pr[2]>>, likes') /\ BagIn(<<pr[2], pr[1]>>, likes')]_vars

\* 1 and 2 matched and then a ban was lifted by /unblock.
C5_Witness ==
    /\ Matched(1, 2)
    /\ reply = Reply("unblock", "user_unbanned")
    /\ updates = MaxUpdates

\* C6: accepting the like of a while the pending like of a to b is there
\* answers "match".
C6_AcceptPendingIsMatch ==
    [][\A pr \in Pairs :
        LET a == pr[1]
            b == pr[2]
        IN (RespondLike(b, a) /\ Pending(a, b))
           => reply' = Reply("respond", "match") /\ BagIn(<<b, a>>, likes')]_vars

\* 2 has answered the pending like of 1 from the inbox and got the match.
C6_Witness ==
    /\ reply = Reply("respond", "match")
    /\ BagToSet(likes) = {<<1, 2>>, <<2, 1>>}
    /\ <<1, 2>> \in responded
    /\ pending_likes = EmptyBag

\* C7: a response of b to the like of a whose pending like an earlier response
\* consumed is declined and changes no like, no pending like and no message.
C7_SecondRespondNoOp ==
    [][\A pr \in Pairs :
        LET a == pr[1]
            b == pr[2]
        IN ((RespondLike(b, a) \/ RespondDislike(b, a)) /\ Consumed(a, b))
           => /\ reply' = Reply("respond", "declined")
              /\ likes' = likes
              /\ pending_likes' = pending_likes
              /\ match_msgs' = match_msgs]_vars

\* C8: a response of b to a like of a that never was pending is declined and
\* creates no like and no pending like.
C8_RespondNeverPendingNoOp ==
    [][\A pr \in Pairs :
        LET a == pr[1]
            b == pr[2]
        IN ((RespondLike(b, a) \/ RespondDislike(b, a)) /\ NeverPending(a, b))
           => /\ reply' = Reply("respond", "declined")
              /\ likes' = likes
              /\ pending_likes' = pending_likes]_vars

\* C9: declining the pending like of a to b removes that row, answers
\* "declined" and leaves the likes and every other pending like as they are.
C9_RejectFrame ==
    [][\A pr \in Pairs :
        LET a == pr[1]
            b == pr[2]
        IN (RespondDislike(b, a) /\ Pending(a, b))
           => /\ reply' = Reply("respond", "declined")
              /\ ~HasPending(pending_likes', a, b)
              /\ likes' = likes
              /\ \A r \in DOMAIN pending_likes :
                    ~(r[1] = a /\ r[2] = b)
                    => CopiesIn(r, pending_likes') = CopiesIn(r, pending_likes)
              /\ DOMAIN pending_likes' \subseteq DOMAIN pending_likes]_vars

\* 2 has declined the like of 1; the like of 3 still waits in the inbox of 2.
C9_Witness ==
    /\ reply = Reply("respond", "declined")
    /\ BagToSet(likes) = {<<1, 2>>, <<3, 2>>}
    /\ <<1, 2>> \in responded
    /\ ~Pending(1, 2)
    /\ Pending(3, 2)

\* C10 as stated: once b has answered the like of a, no pending like of a to
\* b is there.
C10_NoPendingOnceResponded ==
    \A pr \in Pairs : <<pr[1], pr[2]>> \in responded => ~Pending(pr[1], pr[2])

\* C10 amended: the response of b to the like of a removes the pending like,
\* from the table and from what show_likes_command reads for b, and the only
\* step that brings it in is a like of a for b in the swipe queue.
C10_RemovedUntilRelike ==
    [][\A pr \in Pairs :
        LET a == pr[1]
            b == pr[2]
        IN /\ (RespondLike(b, a) \/ RespondDislike(b, a))
              => /\ ~HasPending(pending_likes', a, b)
                 /\ \A row \in get_pending_likes(pending_likes', b) : row[1] # a
           /\ (~Pending(a, b) /\ HasPending(pending_likes', a, b))
              => LikeCallback(a, b)]_vars

\* 2 has answered the like of 1 and the pending like is gone.
C10_Witness ==
    /\ reply.action = "respond"
    /\ <<1, 2>> \in responded
    /\ ~Pending(1, 2)
    /\ get_pending_likes(pending_likes, 2) = {}

\* The ban of u stands at time t: a row of temp_bans with t before its expiry.
BanStands(bans, u, t) == bans[u] # None /\ t < bans[u]

\* C11: the queue a find-partner request builds holds no profile whose ban
\* stands at the time of the request and no profile whose is_active is
\* cleared at that time.
C11_BuiltQueueEligible ==
    [][\A u \in Users :
        (FindPartner(u) /\ reply'.text = "partner")
        => /\ partner_queue'[u] # <<>>
           /\ original_partners'[u] = partner_queue'[u]
           /\ \A p \in Range(partner_queue'[u]) \cup {current_partner_id'[u]} :
                 /\ ~BanStands(temp_bans, p, now)
                 /\ is_active[p]]_vars

\* 1 has built a queue while the ban of 2 stood: the queue holds 3 alone.
C11_Witness ==
    /\ reply = Reply("find_partner", "partner")
    /\ partner_queue[1] = <<3>>
    /\ BanStands(temp_bans, 2, now)
    /\ is_active[2]


\* u is among the candidates of a build of some other user at time t.
Eligible(active, bans, u, t) ==
    \E v \in Users \ {u} : u \in Range(get_all_active_partners(active, bans, v, t))

\* C12: /block of u stores a ban that stands from that moment, and for as
\* long as the ban of a user stands is_user_banned answers true for it and no
\* build of another user has it among its candidates.
C12_BannedExcludedAtOnce ==
    [][/\ \A u \in Users :
            BlockCmd(u) => /\ temp_bans'[u] = now + BlockDays * DaySeconds
                           /\ BanStands(temp_bans', u, now')
       /\ \A u \in Users :
            BanStands(temp_bans', u, now')
            => /\ is_user_banned(temp_bans', u, now')
               /\ ~Eligible(is_active', temp_bans', u, now')]_vars

\* 1 has built a queue on the last day before the ban of 2 runs out.
C12_Witness ==
    /\ reply = Reply("find_partner", "partner")
    /\ partner_queue[1] = <<3>>
    /\ temp_bans[2] # None
    /\ now = temp_bans[2] - DaySeconds

\* C13: /unblock of a user whose ban stands leaves is_user_banned false for it
\* and has it back among the candidates of the builds of the other users.
C13_UnbanRestoresEligibility ==
    [][\A u \in Users :
        (UnblockCmd(u) /\ BanStands(temp_bans, u, now))
        => /\ ~is_user_banned(temp_bans', u, now')
           /\ Eligible(is_active', temp_bans', u, now')]_vars

\* C14: in every state a user that has a ban row has is_active cleared, the
\* row and the flag being written by ban_user_temporarily as one.
C14_BanRowImpliesInactive ==
    \A u \in Users : temp_bans[u] # None => ~is_active[u]

\* Positions of the history at which a call for the key was permitted.
Granted(key) == {i \in DOMAIN calls : calls[i].key = key /\ calls[i].ok}

\* Permitted calls for the key in the period seconds that end with call i.
GrantedBefore(i, period) ==
    {j \in Granted(calls[i].key) : j < i /\ calls[i].at - calls[j].at < period}

\* C15: check_limit with limit 5 and period 60 permits a call exactly when
\* fewer than 5 calls of the same key were permitted in the 60 seconds before
\* it, so that no window of 60 seconds holds more than 5 permitted calls of
\* a key: the sixth call inside a window is denied and a call made once the
\* window has elapsed is permitted again.
C15_AtMostLimitPerWindow ==
    /\ \A i \in DOMAIN calls :
          calls[i].ok <=> Cardinality(GrantedBefore(i, DefaultPeriod)) < DefaultLimit
    /\ \A i \in DOMAIN calls :
          LET key == calls[i].key
              from == calls[i].at
          IN Cardinality({j \in Granted(key) :
                            from <= calls[j].at /\ calls[j].at < from + DefaultPeriod})
             <= DefaultLimit

\* Five calls of one key were permitted at time 0, a sixth was denied inside
\* the window and the seventh, 60 seconds after the first, was permitted.
C15_Witness ==
    /\ Len(calls) = 7
    /\ \A i \in 1..7 : calls[i].key = LimiterKey(1, "find_partner")
    /\ \A i \in 1..5 : calls[i].at = 0 /\ calls[i].ok
    /\ calls[6].at < DefaultPeriod /\ ~calls[6].ok
    /\ calls[7].at = DefaultPeriod /\ calls[7].ok

\* C16: a call that check_limit denies leaves, for its key, the timestamps
\* younger than the period and nothing else, and the other keys as they
\* were; at every later time the next call is permitted or denied as it
\* would be had the denied call not been made.
C16_DeniedRecordsNothing ==
    [][\A u \in LimiterUsers : \A a \in LimiterActions :
        LET key == LimiterKey(u, a)
        IN (Allow(u, a) /\ ~check_limit(requests, key, DefaultLimit, DefaultPeriod, now))
           => /\ requests'[key] = PrunedRequests(requests, key, DefaultPeriod, now)
              /\ \A k \in DOMAIN requests \ {key} : requests'[k] = requests[k]
              /\ now \notin Range(requests'[key]) \ Range(requests[key])
              /\ Len(requests'[key]) <= Len(requests[key])
              /\ \A d \in 0..DefaultPeriod :
                    check_limit(requests', key, DefaultLimit, DefaultPeriod, now + d)
                    = check_limit(requests, key, DefaultLimit, DefaultPeriod, now + d)]_vars

\* A call was denied 40 seconds after five calls of its key had been
\* permitted; the five timestamps are what the limiter holds for the key.
C16_Witness ==
    /\ reply = Reply("check_limit", "denied")
    /\ now = 2 * TickSeconds
    /\ calls # <<>> /\ calls[Len(calls)].key = LimiterKey(1, "find_partner")
    /\ Len(RequestsOf(requests, LimiterKey(1, "find_partner"))) = DefaultLimit

\* The step is a call of next_partner for u: a dislike, or a like that is
\* no match.
Advance(u) ==
    \E p \in Users \ {u} :
        \/ DislikeCallback(u, p)
        \/ LikeCallback(u, p) /\ ~add_like(likes, u, p)

\* s is what is left of t after some of its first entries were taken.
IsSuffix(s, t) ==
    \E k \in 0..Len(t) : s = SubSeq(t, k + 1, Len(t))

\* Number of entries of the snapshot of u that were consumed.
Cursor(queue, original, u) == Len(original[u]) - Len(queue[u])

\* C17: a build leaves the ranked ids as the queue; each next_partner call
\* after it returns the head of what is left of them, in ranked order and one
\* id per call, and the call made when nothing is left signals exhaustion.
C17_AdvanceInRankedOrder ==
    [][\A u \in Users :
        /\ (FindPartner(u) /\ reply'.text = "partner")
           => /\ partner_queue'[u] = partners_sorted(is_active, temp_bans, u, now)
              /\ original_partners'[u] = partner_queue'[u]
        /\ IsSuffix(partner_queue'[u], original_partners'[u])
        /\ (Advance(u) /\ original_partners[u] # <<>>)
           => IF partner_queue[u] # <<>>
              THEN /\ current_partner_id'[u] = Head(partner_queue[u])
                   /\ current_partner_id'[u]
                        = original_partners[u][Cursor(partner_queue, original_partners, u) + 1]
                   /\ partner_queue'[u] = Tail(partner_queue[u])
                   /\ presented'[u] # <<>>
                   /\ presented'[u][Len(presented'[u])] = Head(partner_queue[u])
              ELSE /\ partner_queue'[u] = <<>>
                   /\ current_partner_id'[u] = current_partner_id[u]
                   /\ presented'[u][Len(presented'[u])] = Exhausted]_vars

\* 1 has built the queue 2, 3 and has pressed dislike three times: the calls
\* of next_partner gave 2, then 3, then the exhaustion signal.
C17_Witness ==
    /\ original_partners[1] = <<2, 3>>
    /\ partner_queue[1] = <<>>
    /\ presented[1] = <<2, 2, 3, Exhausted>>
    /\ reply = Reply("dislike", "dislike")

\* The exhaustion message, which carries the restart button, was shown to u.
SawExhausted(u) == presented[u] # <<>> /\ presented[u][Len(presented[u])] = Exhausted

\* C18: the restart button pressed after exhaustion puts the snapshot stored
\* by the build back as the queue and shows its head, and no like, dislike or
\* restart alters the stored snapshot.
C18_RestartResetsToSnapshot ==
    [][\A u \in Users :
        /\ (RestartSearch(u) /\ SawExhausted(u))
           => /\ partner_queue'[u] = original_partners[u]
              /\ current_partner_id'[u] = Head(original_partners[u])
              /\ presented'[u] = <<Head(original_partners[u])>>
        /\ (Advance(u) \/ RestartSearch(u))
           => original_partners'[u] = original_partners[u]]_vars

\* C19: from one update to the next the cursor of the queue of u does not
\* decrease, a new build aside, unless the update is the restart button, and
\* the restart button sets it to the start of the snapshot.
C19_CursorMonotone ==
    [][\A u \in Users :
        LET before == Cursor(partner_queue, original_partners, u)
            after == Cursor(partner_queue', original_partners', u)
        IN /\ (~FindPartner(u) /\ ~RestartSearch(u)) => after >= before
           /\ (RestartSearch(u) /\ SawExhausted(u))
              => after = 0 /\ original_partners'[u] = original_partners[u]]_vars

\* Twice the score of the candidate row for a seeker: the distances in hours
\* and in age, minus 40 for a verified candidate, minus 20 for a bio with an
\* affinity keyword.
DoubleScore(cur_hours, cur_age, row) ==
    Abs(row[3] - cur_hours) + Abs(row[4] - cur_age)
        - (IF row[7] THEN 40 ELSE 0) - (IF row[5] THEN 20 ELSE 0)

\* C20: the ranking is a permutation of the candidates in non-decreasing
\* order of the score; for the seeker (100, 20) the candidates (110, 22,
\* verified) and (500, 40), in either order, are ranked verified one first.
C20_RankedByScore ==
    LET out == ranking.sorted
        B == <<2, FirstName(2), 110, 22, FALSE, Username(2), TRUE>>
        C == <<3, FirstName(3), 500, 40, FALSE, Username(3), FALSE>>
    IN /\ Len(out) = Len(ranking.partners)
       /\ \A r \in Range(ranking.partners) \cup Range(out) :
             Cardinality({i \in DOMAIN out : out[i] = r})
             = Cardinality({i \in DOMAIN ranking.partners : ranking.partners[i] = r})
       /\ \A i \in DOMAIN out : \A k \in DOMAIN out :
             i < k => DoubleScore(ranking.hours, ranking.age, out[i])
                      <= DoubleScore(ranking.hours, ranking.age, out[k])
       /\ (/\ ranking.hours = 100 /\ ranking.age = 20
           /\ ranking.partners \in {<<B, C>>, <<C, B>>})
          => out = <<B, C>>

\* The seeker (100, 20) had (500, 40) and then (110, 22, verified) ranked.
C20_Witness ==
    /\ ranking.hours = 100 /\ ranking.age = 20
    /\ ranking.partners = <<<<3, FirstName(3), 500, 40, FALSE, Username(3), FALSE>>,
                            <<2, FirstName(2), 110, 22, FALSE, Username(2), TRUE>>>>
    /\ ranking.sorted = <<ranking.partners[2], ranking.partners[1]>>

\* The entries of rows whose score for the seeker is the given one, in order.
OfScore(rows, cur_hours, cur_age, score) ==
    SelectSeq(rows, LAMBDA r : DoubleScore(cur_hours, cur_age, r) = score)

\* C21: the ranking is stable: the candidates of one score come out in the
\* order in which they went in.
C21_RankStable ==
    \A r \in Range(ranking.partners) :
        LET score == DoubleScore(ranking.hours, ranking.age, r)
        IN OfScore(ranking.sorted, ranking.hours, ranking.age, score)
           = OfScore(ranking.partners, ranking.hours, ranking.age, score)

\* Candidate 3 went in ahead of candidate 2, both at (110, 22) with no flag,
\* and came out ahead of it.
C21_Witness ==
    /\ ranking.hours = 100 /\ ranking.age = 20
    /\ ranking.partners = <<<<3, FirstName(3), 110, 22, FALSE, Username(3), FALSE>>,
                            <<2, FirstName(2), 110, 22, FALSE, Username(2), FALSE>>>>
    /\ ranking.sorted = ranking.partners

\* The users who have a report on the target outstanding.
Reporters(table, target) == {r \in Users : BagIn(<<r, target>>, table)}

\* C22: the report of r on t filed while that report is outstanding leaves
\* the reports, the count of t and the summary as they are.
C22_ReportIdempotent ==
    [][\A r \in Users : \A t \in Users :
        (ReportCallback(r, t) /\ BagIn(<<r, t>>, reports))
        => /\ reports' = reports
           /\ CountRows(reports', t) = CountRows(reports, t)
           /\ \A g \in GroupOrders(reports) :
                 get_reports_summary(reports', g) = get_reports_summary(reports, g)]_vars

\* 1 has reported 3 twice and the table holds the one row.
C22_Witness ==
    /\ filed = <<<<1, 3>>, <<1, 3>>>>
    /\ reports = SetToBag({<<1, 3>>})
    /\ reply = Reply("report", "report_sent")

\* C23: the summary has one entry for each user with a report outstanding
\* and for no other, the entry gives the number of distinct reporters of
\* that user, and the numbers never rise along the summary.
C23_SummaryCountsDistinctReporters ==
    \A g \in GroupOrders(reports) :
        LET out == get_reports_summary(reports, g)
            targets == {t \in Users : Reporters(reports, t) # {}}
        IN /\ {out[i][1] : i \in DOMAIN out} = targets
           /\ Len(out) = Cardinality(targets)
           /\ \A i \in DOMAIN out :
                 out[i][2] = Cardinality(Reporters(reports, out[i][1]))
           /\ \A i \in DOMAIN out : \A k \in DOMAIN out :
                 i < k => out[i][2] >= out[k][2]

\* /reports has listed 3 with two reporters ahead of 2 with one, 1 having
\* reported 3 twice.
C23_Witness ==
    /\ reply.action = "reports"
    /\ reply.summary = <<<<3, 2>>, <<2, 1>>>>
    /\ Len(filed) = 4
    /\ reports = SetToBag({<<1, 3>>, <<2, 3>>, <<1, 2>>})

\* C24: /unblock of a user, and the unban button of the admin's list, leave
\* the reports and the summary as they are.
C24_UnbanKeepsReports ==
    [][\A t \in Users :
        (UnblockCmd(t) \/ \E u \in Users : AdminUnban(u, t))
        => /\ reports' = reports
           /\ \A g \in GroupOrders(reports) :
                 get_reports_summary(reports', g) = get_reports_summary(reports, g)]_vars

\* 2 has been unblocked with the reports of 1 and of 3 on it outstanding.
C24_Witness ==
    /\ reply = Reply("unblock", "user_unbanned")
    /\ temp_bans[2] = None
    /\ Reporters(reports, 2) = {1, 3}

\* C25: a like during which a statement of add_like raises leaves the likes
\* and the pending likes as they are.
C25_FailedLikeMutatesNothing ==
    [][\A u \in Users : \A p \in Users \ {u} : \A fault \in Faults :
        LikeBranchStoreFails(u, p, fault)
        => /\ likes' = likes
           /\ pending_likes' = pending_likes]_vars

\* The INSERT of the like of 1 for 2 has raised: a pending like of 1 to 2 is
\* stored and no edge of 1 to 2 is.
C25_PendingWithoutEdge ==
    /\ faults # <<>>
    /\ faults[Len(faults)].at = "insert"
    /\ Pending(1, 2)
    /\ ~Edge(1, 2)

\* C26: in no state is a pending like of a to b stored together with the
\* edge of b to a.
C26_NoPendingOnceReciprocated ==
    \A pr \in Pairs : ~(Pending(pr[1], pr[2]) /\ Edge(pr[2], pr[1]))

\* 2 has liked 1 back in the swipe queue, the answer was "match", and the
\* pending like of 1 to 2 is still stored.
C26_PendingAfterSwipeMatch ==
    /\ reply = Reply("like", "match")
    /\ Matched(1, 2)
    /\ Pending(1, 2)
    /\ responded = {}

\* C27: a like in the swipe queue that is no match stores the pending like
\* and takes exactly one entry off the queue of the liker, the head, or
\* signals exhaustion when no entry is left; a like that is a match leaves
\* the queue, the profile shown and the snapshot of the liker as they are.
C27_PendingLikeAdvancesMatchDoesNot ==
    [][\A u \in Users : \A p \in Users \ {u} :
        /\ (LikeCallback(u, p) /\ reply'.text = "like_sent")
           => /\ HasPending(pending_likes', u, p)
              /\ original_partners'[u] = original_partners[u]
              /\ IF partner_queue[u] # <<>>
                 THEN /\ partner_queue'[u] = Tail(partner_queue[u])
                      /\ Cursor(partner_queue', original_partners', u)
                           = Cursor(partner_queue, original_partners, u) + 1
                      /\ current_partner_id'[u] = Head(partner_queue[u])
                 ELSE /\ partner_queue'[u] = <<>>
                      /\ current_partner_id'[u] = current_partner_id[u]
        /\ (LikeCallback(u, p) /\ reply'.text = "match")
           => /\ partner_queue'[u] = partner_queue[u]
              /\ current_partner_id'[u] = current_partner_id[u]
              /\ original_partners'[u] = original_partners[u]
              /\ presented'[u] = presented[u]]_vars

\* 2 has built the queue 1, 3; its like of 3 was no match and took one entry
\* off the queue, its like of 1 was a match and took none.
C27_Witness ==
    /\ reply = Reply("like", "match")
    /\ original_partners[2] = <<1, 3>>
    /\ partner_queue[2] = <<3>>
    /\ presented[2] = <<1, 1>>
    /\ Pending(2, 3)
    /\ Matched(1, 2)
    /\ ~Edge(1, 3) /\ ~Edge(3, 1)

\* C28: a dislike in the swipe queue leaves the likes, the pending likes,
\* the profiles, the bans and the reports as they are and sends no match
\* message; it takes the head off the queue of the user who pressed it and
\* alters the queue of nobody else; the queue a later build gives that user
\* is the one a build would have given before the dislike.
C28_DislikeOnlyAdvances ==
    [][\A u \in Users : \A p \in Users \ {u} :
        DislikeCallback(u, p)
        => /\ likes' = likes
           /\ pending_likes' = pending_likes
           /\ is_active' = is_active /\ temp_bans' = temp_bans /\ reports' = reports
           /\ match_msgs' = match_msgs
           /\ partner_queue'[u] = next_partner_queue(partner_queue[u])
           /\ \A v \in Users \ {u} : partner_queue'[v] = partner_queue[v]
           /\ partners_sorted(is_active', temp_bans', u, now')
                = partners_sorted(is_active, temp_bans, u, now)]_vars

\* 1 has built the queue 2, 3 and pressed dislike: no edge and no pending
\* like is stored, one entry is gone, and a build made now has 2 in it.
C28_Witness ==
    /\ reply = Reply("dislike", "dislike")
    /\ original_partners[1] = <<2, 3>>
    /\ partner_queue[1] = <<3>>
    /\ likes = EmptyBag /\ pending_likes = EmptyBag
    /\ partners_sorted(is_active, temp_bans, 1, now) = <<2, 3>>

\* C29: once b has declined the pending like of a, a like of a for b in the
\* swipe queue made while the edge of b to a is absent answers "like sent"
\* and stores the pending like of a to b again, as one row.
C29_RelikeAfterRejectRecreatesPending ==
    [][\A pr \in Pairs :
        LET a == pr[1]
            b == pr[2]
        IN (LikeCallback(a, b) /\ Consumed(a, b) /\ ~Edge(b, a))
           => /\ reply' = Reply("like", "like_sent")
              /\ PendingCount(pending_likes', a, b) = 1
              /\ a \in {row[1] : row \in get_pending_likes(pending_likes', b)}
              /\ likes' = likes]_vars

\* 2 has declined the like of 1, 1 has liked 2 again: the pending like of 1
\* to 2 is stored and 2 has no edge to 1.
C29_Witness ==
    /\ reply = Reply("like", "like_sent")
    /\ <<1, 2>> \in responded
    /\ Pending(1, 2)
    /\ Edge(1, 2)
    /\ ~Edge(2, 1)
    /\ BagCardinality(likes) = 1

\* C30: a build for u puts the new ranking in the place of the queue, of the
\* snapshot and of the stored rows of u, with the cursor at the start and
\* nothing of the old queue kept, and alters the queue, the snapshot, the rows
\* and the shown profile of no other user.
C30_BuildReplacesQueue ==
    [][\A u \in Users :
        (FindPartner(u) /\ reply'.text = "partner")
        => LET ranking_now == partners_sorted(is_active, temp_bans, u, now)
           IN /\ partner_queue'[u] = ranking_now
              /\ original_partners'[u] = ranking_now
              /\ partner_data'[u] = Range(ranking_now)
              /\ Cursor(partner_queue', original_partners', u) = 0
              /\ current_partner_id'[u] = Head(ranking_now)
              /\ \A v \in Users \ {u} :
                    /\ partner_queue'[v] = partner_queue[v]
                    /\ original_partners'[v] = original_partners[v]
                    /\ partner_data'[v] = partner_data[v]
                    /\ current_partner_id'[v] = current_partner_id[v]]_vars

\* 1 has asked for a partner twice, 3 having hidden its profile before the
\* second request: the queue and the snapshot of 1 are the new ranking, 2.
C30_Witness ==
    /\ reply = Reply("find_partner", "partner")
    /\ Len(calls) = 2
    /\ \A i \in DOMAIN calls : calls[i].key = LimiterKey(1, "find_partner") /\ calls[i].ok
    /\ ~is_active[3]
    /\ partner_queue[1] = <<2>>
    /\ original_partners[1] = <<2>>
    /\ partner_data[1] = {2}

\* The queue, the snapshot, the stored rows, the shown profile and the
\* cursor of u are the same before and after the step.
QueueKept(u) ==
    /\ partner_queue'[u] = partner_queue[u]
    /\ original_partners'[u] = original_partners[u]
    /\ partner_data'[u] = partner_data[u]
    /\ current_partner_id'[u] = current_partner_id[u]
    /\ Cursor(partner_queue', original_partners', u)
         = Cursor(partner_queue, original_partners, u)

\* C31: a find-partner request that the limiter denies, or that a banned
\* user makes, or that finds no candidate, the fetch of the candidates
\* failing included, answers with the reason and leaves the queue, the
\* cursor and the snapshot of the user as they are.
C31_DeniedRequestBuildsNothing ==
    [][\A u \in Users :
        LET key == LimiterKey(u, "find_partner")
            denied == ~check_limit(requests, key, FindPartnerLimit, FindPartnerPeriod, now)
            banned == BanStands(temp_bans, u, now)
            none == get_all_active_partners(is_active, temp_bans, u, now) = <<>>
        IN /\ (FindPartner(u) /\ denied)
              => reply'.text = "too_many_requests" /\ QueueKept(u)
           /\ (FindPartner(u) /\ ~denied /\ banned)
              => reply'.text = "banned" /\ QueueKept(u)
           /\ (FindPartner(u) /\ ~denied /\ ~banned /\ none)
              => reply'.text = "no_partners" /\ QueueKept(u)
           /\ FindPartnerFetchFails(u)
              => reply'.text = "no_partners" /\ QueueKept(u)]_vars

\* The eleventh request of 2 within the minute was denied; 2 still holds the
\* queue of its build, one entry consumed.
C31_Witness ==
    /\ reply = Reply("find_partner", "too_many_requests")
    /\ Len(calls) = 11
    /\ ~calls[11].ok
    /\ original_partners[2] = <<1, 3>>
    /\ partner_queue[2] = <<3>>

StaleHeld(key) ==
    \E i \in 1..Len(RequestsOf(requests, key)) :
        now - RequestsOf(requests, key)[i] > HourSeconds

\* C33: whenever a key holds a timestamp more than an hour old, a later state
\* holds no such timestamp for it, whether or not the key is called again.
C33_StaleTimestampsPurged ==
    \A u \in LimiterUsers : \A a \in LimiterActions :
        StaleHeld(LimiterKey(u, a)) ~> ~StaleHeld(LimiterKey(u, a))

\* The clock has run out and the key of 1 still holds a timestamp more than an
\* hour old while the key of 2 was called in the last hour.
C33_StaleKeptForIdleKey ==
    /\ now = MaxHours * HourSeconds
    /\ StaleHeld(LimiterKey(1, "find_partner"))
    /\ Len(RequestsOf(requests, LimiterKey(2, "find_partner"))) > 0
    /\ ~StaleHeld(LimiterKey(2, "find_partner"))

\* C34: every pending like of a to b has the edge (a, b) in the likes table.
C34_PendingHasEdge ==
    \A a \in Users : \A b \in Users : Pending(a, b) => Edge(a, b)

\* Two pending likes of different senders are outstanding, one of them to a
\* user who has not liked back and one whose sender has been matched since with
\* a third user.
C34_Witness ==
    /\ Pending(1, 2) /\ Edge(1, 2) /\ ~Edge(2, 1)
    /\ Pending(3, 1) /\ Edge(3, 1)
    /\ Matched(3, 2)

\* Number of times x was presented in seen.
Occurrences(seen, x) == Cardinality({i \in DOMAIN seen : seen[i] = x})

\* C35: from a build to the first exhaustion signal no id of the snapshot is
\* presented twice, and once exhaustion is signalled every id of the snapshot
\* has been presented exactly once.
C35_EachPresentedOnce ==
    \A u \in Users : \A id \in Range(original_partners[u]) :
        /\ Occurrences(presented[u], id) <= 1
        /\ SawExhausted(u) => Occurrences(presented[u], id) = 1

\* 2 has built the queue 1, 3 and has reached the exhaustion signal: 1 was
\* presented by the build and again by the first advance.
C35_HeadPresentedTwice ==
    /\ original_partners[2] = <<1, 3>>
    /\ SawExhausted(2)
    /\ Occurrences(presented[2], 1) = 2
    /\ Occurrences(presented[2], 3) = 1

\* C36: at every time, the time a ban runs out included, a user whose
\* is_active is set is among the candidates of the other users exactly when
\* is_user_banned answers false for it.
C36_BanAndEligibilityAgree ==
    \A u \in Users :
        is_active[u]
        => (Eligible(is_active, temp_bans, u, now) <=> ~is_user_banned(temp_bans, u, now))

\* The clock stands at the time the ban of 2 runs out: is_user_banned answers
\* false for 2, whose is_active is set, and no build has 2 among its candidates.
C36_NeitherBannedNorEligible ==
    /\ is_active[2]
    /\ temp_bans[2] = now
    /\ ~is_user_banned(temp_bans, 2, now)
    /\ ~Eligible(is_active, temp_bans, 2, now)

\* The ban record of u is still stored and its expiry is in the past.
BanRanOut(u) == temp_bans[u] # None /\ temp_bans[u] < now

\* C37: a user banned while its profile was active is, with nothing done but
\* time passing, later past the expiry of the ban with the record still
\* stored, and from then on it is among the candidates of the other users.
C37_BanLiftsByTime ==
    /\ \A u \in Moderated :
          BanStands(temp_bans, u, now) ~> (BanRanOut(u) /\ Eligible(is_active, temp_bans, u, now))
    /\ [](\A u \in Moderated : BanRanOut(u) => Eligible(is_active, temp_bans, u, now))

\* 1 has built a queue after the ban of 2 ran out: the record of the ban is
\* still stored and 2 is in the queue.
C37_Witness ==
    /\ BanRanOut(2)
    /\ reply = Reply("find_partner", "partner")
    /\ 2 \in Range(partner_queue[1])
    /\ original_partners[2] = <<>>

\* C38: /unblock of a user that has no ban row leaves the store, the queues
\* and the answers of is_user_banned and of the candidate query as they were;
\* the is_active of a user that hid its profile stays cleared.
C38_UnbanWithoutBanChangesNothing ==
    [][\A u \in Users :
        (UnblockCmd(u) /\ temp_bans[u] = None)
        => /\ is_active' = is_active
           /\ temp_bans' = temp_bans
           /\ reports' = reports
           /\ likes' = likes
           /\ pending_likes' = pending_likes
           /\ UNCHANGED queueVars
           /\ \A v \in Users :
                 /\ is_user_banned(temp_bans', v, now') = is_user_banned(temp_bans, v, now)
                 /\ Eligible(is_active', temp_bans', v, now')
                       = Eligible(is_active, temp_bans, v, now)]_vars

\* 2 has hidden its profile and /unblock was sent next, no ban row being
\* stored: the profile of 2 is still hidden.
C38_Witness ==
    /\ updates = 2
    /\ reply = Reply("unblock", "user_unbanned")
    /\ ~is_active[2]
    /\ \A u \in Users : temp_bans[u] = None

\* C39: in main.py no user has more than MAX_DAILY_LIKES rows put into the
\* likes table on one date.
C39_AtMostMaxDailyLikes ==
    \A k \in DOMAIN main.inserted : main.inserted[k] <= MAX_DAILY_LIKES

\* 1 has pressed the reset button after ten likes of the day and has liked
\* once more: eleven rows of 1 went into likes on that date, and the counter
\* of the day stands at one.
C39_ElevenLikesInADay ==
    /\ CountOf(main.inserted, <<1, 0>>) = 11
    /\ main.today = 0
    /\ Database_get_daily_likes_count(main.daily_likes, 1, 0) = 1
    /\ main.answer = "like_sent"

\* C40: no key of the limiter ever holds more timestamps than the limit its
\* calls pass, and a call of check_limit for one key leaves the timestamps of
\* every other key, and what a call for that key would return, as they were.
C40_KeyWithinLimitAndIsolated ==
    /\ [](\A k \in DOMAIN requests : Len(requests[k]) <= DefaultLimit)
    /\ [][\A u \in LimiterUsers : \A a \in LimiterActions :
            Allow(u, a)
            => \A v \in LimiterUsers : \A b \in LimiterActions :
                  LimiterKey(v, b) # LimiterKey(u, a)
                  => /\ RequestsOf(requests', LimiterKey(v, b))
                          = RequestsOf(requests, LimiterKey(v, b))
                     /\ check_limit(requests', LimiterKey(v, b), DefaultLimit,
                                    DefaultPeriod, now')
                          = check_limit(requests, LimiterKey(v, b), DefaultLimit,
                                        DefaultPeriod, now)]_vars

\* The key of 1 holds as many timestamps as the limit and its sixth call
\* was denied; the call for the key of 2 that followed was permitted.
C40_Witness ==
    /\ Len(RequestsOf(requests, LimiterKey(1, "find_partner"))) = DefaultLimit
    /\ Len(calls) = 7
    /\ calls[6].key = LimiterKey(1, "find_partner") /\ ~calls[6].ok
    /\ calls[7].key = LimiterKey(2, "find_partner") /\ calls[7].ok
    /\ Len(RequestsOf(requests, LimiterKey(2, "find_partner"))) = 1

====
